---- MODULE Spec2Model ----
(***************************************************************************)
(* State-machine model of custom_components/ics2000/light.py:              *)
(* setup_platform, the KlikAanKlikUitDevice light entity (turn_on,         *)
(* turn_off, color_mode), the KlikAanKlikUitThread workers and the         *)
(* repeat loop each worker runs against the hub.                           *)
(*                                                                         *)
(* Callers are the platform's executor threads that invoke turn_on and     *)
(* turn_off; every statement of a call that reads or writes shared state   *)
(* is one step, so calls interleave with each other and with the workers.  *)
(***************************************************************************)
EXTENDS Integers, Sequences, FiniteSets, TLC

(* ------------------------------ bounds -------------------------------- *)
MaxThreads == 2      \* workers alive at one time
MaxTries   == 1      \* the "tries" a configuration sets
MaxSleep   == 0      \* the "sleep" a configuration sets

(* ------------------------- program constants -------------------------- *)
DefaultTries      == 3     \* config.get("tries", 3)
DefaultSleep      == 3     \* config.get("sleep", 3)
DefaultBrightness == 255   \* kwargs.get(ATTR_BRIGHTNESS, 255): full brightness
LevelDivisor      == 17    \* math.ceil(self.brightness / 17)
None              == -1    \* Python None in an integer-valued field

ATTR_BRIGHTNESS == "brightness"
TURN_ON  == "on"               \* KlikAanKlikUitAction.TURN_ON.value
TURN_OFF == "off"              \* KlikAanKlikUitAction.TURN_OFF.value
DIM      == "dim"              \* KlikAanKlikUitAction.DIM.value
BRIGHTNESS == "brightness"     \* ColorMode.BRIGHTNESS
ONOFF      == "onoff"          \* ColorMode.ONOFF

\* The objects hub.devices can hold: a Dimmer, and a plain Device (a switch).
Dimmer == [id |-> 1, type |-> "Dimmer"]
Device == [id |-> 2, type |-> "Device"]

\* The device lists of the hubs the model is run with.
DeviceLists == {<<Dimmer>>, <<Device>>}

\* Hubs that hold both devices, in either order.
PairLists == {<<Dimmer, Device>>, <<Device, Dimmer>>}

\* The device lists setup_platform is run over: none, one or both devices.
SetupLists == {<<>>} \cup DeviceLists \cup PairLists

\* The positions of hub.devices, which are also those of the entities.
Entities == UNION {DOMAIN l : l \in SetupLists}

\* The platform threads that call turn_on / turn_off.
Callers == {1, 2}

\* Brightness arguments the callers pass (SpecLevel covers all of 0..255).
BrightnessInputs == {0, 18}

\* The platform's brightness range.
Brightness == 0..DefaultBrightness

VARIABLES
    config,      \* the validated platform configuration (keys "tries", "sleep")
    hub,         \* the Hub object: its connected flag and its devices list
    setup,       \* position of setup_platform: "start" or "done"
    errors,      \* number of _LOGGER.error records
    entities,    \* the KlikAanKlikUitDevice objects given to add_entities
    callers,     \* each caller's position in turn_on / turn_off and its locals
    threads,     \* threading's registry: the live workers, in start order
    started,     \* history: per entity, the action of the worker started last
    level_io     \* input and output of the brightness-to-level conversion

vars == <<config, hub, setup, errors, entities, callers, threads,
          started, level_io>>

(* ---------------------- dictionaries (kwargs, config) ----------------- *)
\* A dict is a set of <<key, value>> pairs with distinct keys.
dict_get(d, key, default) ==
    IF \E p \in d : p[1] = key
    THEN (CHOOSE p \in d : p[1] = key)[2]
    ELSE default

(* ------------------------------ workers -------------------------------- *)
\* the thread name without the device id
thread_name_no_id(action, device_id) == "kaku" \o action

\* KlikAanKlikUitThread.__init__: name = f"kaku{action.value}{device_id}"
thread_name(action, device_id) == "kaku" \o action \o ToString(device_id)

\* threading.enumerate(): the started threads that have not terminated.
enumerate == DOMAIN threads

\* has_running_threads without the name of the dim worker
has_running_threads_no_dim(device_id) ==
    LET running_threads ==
            {i \in enumerate :
                threads[i].name \in {thread_name(TURN_ON, device_id),
                                     thread_name(TURN_OFF, device_id)}}
    IN  running_threads # {}

has_running_threads(device_id) ==
    LET running_threads ==
            {i \in enumerate :
                threads[i].name \in {thread_name(TURN_ON, device_id),
                                     thread_name(DIM, device_id),
                                     thread_name(TURN_OFF, device_id)}}
    IN  running_threads # {}

\* The conversion with floor division in place of math.ceil
Level_floor(brightness) == brightness \div LevelDivisor

\* math.ceil(brightness / 17) for an integer brightness >= 0
Level(brightness) ==
    IF brightness % LevelDivisor = 0
    THEN brightness \div LevelDivisor
    ELSE brightness \div LevelDivisor + 1

\* The KlikAanKlikUitThread object built by turn_on / turn_off, before start().
\* kwargs holds the hub call's keyword arguments ("entity", and "level" for dim).
KlikAanKlikUitThread(action, device_id, tries, sleep, callable_function, kwargs) ==
    [name              |-> thread_name(action, device_id),
     tries             |-> tries,
     sleep             |-> sleep,
     callable_function |-> callable_function,
     kwargs            |-> kwargs,
     i                 |-> 0,
     pc                |-> "new",
     exc               |-> FALSE,
     trace             |-> <<>>]

\* The caller's thread local before construction.
NoThread == [KlikAanKlikUitThread("", 0, 0, 0, "", {}) EXCEPT !.name = ""]

(* ------------------------------ entities ------------------------------- *)
\* KlikAanKlikUitDevice.__init__
KlikAanKlikUitDevice(device, tries, sleep) ==
    [tries       |-> tries,
     sleep       |-> sleep,
     _id         |-> device.id,
     _state      |-> "None",
     _brightness |-> None,
     _attr_supported_color_modes |->
         IF device.type = "Dimmer" THEN {BRIGHTNESS} ELSE {ONOFF}]

\* Python truth value of self._brightness
Truthy(b) == b # None /\ b # 0

\* KlikAanKlikUitDevice.color_mode
color_mode(self) ==
    IF Truthy(entities[self]._brightness) THEN BRIGHTNESS ELSE ONOFF

brightness(self) == entities[self]._brightness
is_on(self)      == entities[self]._state

\* A caller's position and its locals (self, kwargs, the thread it has built).
IdleCaller == [pc |-> "idle", self |-> 0, kwargs |-> {}, thread |-> NoThread]

(* ------------------------------- Init ---------------------------------- *)
\* The configurations the model is run with: one that leaves both optional
\* keys out, and one that sets both.
Configs == {{}, {<<"tries", MaxTries>>, <<"sleep", MaxSleep>>}}

Init ==
    /\ config \in Configs
    /\ hub \in [connected : BOOLEAN, devices : DeviceLists]
    /\ setup = "start"
    /\ errors = 0
    /\ entities = <<>>
    /\ callers = [c \in Callers |-> IdleCaller]
    /\ threads = <<>>
    /\ started = <<>>
    /\ level_io = <<>>

(* --------------------------- setup_platform ---------------------------- *)
\* lines 70-72 without the return: the error is logged and the devices are
\* added all the same
setup_platform_no_return ==
    /\ setup = "start"
    /\ setup' = "done"
    /\ errors' = IF ~hub.connected THEN errors + 1 ELSE errors
    /\ entities' = [n \in DOMAIN hub.devices |->
                        KlikAanKlikUitDevice(
                            hub.devices[n],
                            dict_get(config, "tries", DefaultTries),
                            dict_get(config, "sleep", DefaultSleep))]
    /\ started' = [n \in DOMAIN hub.devices |-> ""]
    /\ UNCHANGED <<config, hub, callers, threads, level_io>>

setup_platform ==
    /\ setup = "start"
    /\ setup' = "done"
    /\ IF ~hub.connected
       THEN /\ errors' = errors + 1
            /\ UNCHANGED <<entities, started>>
       ELSE /\ entities' = [n \in DOMAIN hub.devices |->
                                KlikAanKlikUitDevice(
                                    hub.devices[n],
                                    dict_get(config, "tries", DefaultTries),
                                    dict_get(config, "sleep", DefaultSleep))]
            /\ started' = [n \in DOMAIN hub.devices |-> ""]
            /\ UNCHANGED errors
    /\ UNCHANGED <<config, hub, callers, threads, level_io>>

(* ------------------------ callers: shared parts ------------------------ *)
\* A caller is inside a call from its in-flight check until its last statement.
MidCall(c) == callers[c].pc # "idle"

\* Calls under way that have yet to start their worker.
Pending ==
    Cardinality({c \in Callers :
        callers[c].pc \notin {"idle", "on_return", "off_return",
                              "on_state", "off_state"}})

\* The model keeps at most MaxThreads workers alive: a call is taken up only
\* when room is left for its worker.
CanStart == Len(threads) + Pending < MaxThreads

\* Under SpecSerial a call for a device begins only when no other call for
\* that device is under way; under Spec calls overlap freely.
Serialized(serial, self) ==
    serial => \A c \in Callers : MidCall(c) => callers[c].self # self

Kwargs == {{}} \cup {{<<ATTR_BRIGHTNESS, b>>} : b \in BrightnessInputs}

SetCaller(c, r) == callers' = [callers EXCEPT ![c] = r]
SetThread(t, r) == threads' = [threads EXCEPT ![t] = r]
SetEntity(self, field, value) ==
    entities' = [entities EXCEPT ![self] = [@ EXCEPT ![field] = value]]

\* Thread.start(): the thread enters the registry and begins repeat();
\* range(0, tries) is empty when tries = 0.
Started(t) == [t EXCEPT !.pc = IF t.tries > 0 THEN "call" ELSE "exit"]

Start(t, self, action) ==
    /\ threads' = Append(threads, Started(t))
    /\ started' = [started EXCEPT ![self] = action]

(* ------------------------------ turn_on -------------------------------- *)
\* lines 173-179: the call begins; has_running_threads(self._id)
turn_on_check(c, self, kwargs, serial) ==
    /\ callers[c].pc = "idle"
    /\ self \in DOMAIN entities
    /\ Serialized(serial, self)
    /\ IF has_running_threads(entities[self]._id)
       THEN SetCaller(c, [IdleCaller EXCEPT !.pc = "on_return", !.self = self])
       ELSE /\ CanStart
            /\ SetCaller(c, [IdleCaller EXCEPT !.pc = "on_brightness",
                                !.self = self, !.kwargs = kwargs])
    /\ UNCHANGED <<config, hub, setup, errors, entities, threads,
                   started, level_io>>

\* line 180: return
turn_on_return(c) ==
    /\ callers[c].pc = "on_return"
    /\ SetCaller(c, IdleCaller)
    /\ UNCHANGED <<config, hub, setup, errors, entities, threads,
                   started, level_io>>

\* line 182 as kwargs.get(ATTR_BRIGHTNESS, self._brightness)
turn_on_brightness_keep(c) ==
    /\ callers[c].pc = "on_brightness"
    /\ SetEntity(callers[c].self, "_brightness",
                 dict_get(callers[c].kwargs, ATTR_BRIGHTNESS,
                          entities[callers[c].self]._brightness))
    /\ SetCaller(c, [callers[c] EXCEPT !.pc = "on_is_none"])
    /\ UNCHANGED <<config, hub, setup, errors, threads, started, level_io>>

\* line 182: self._brightness = kwargs.get(ATTR_BRIGHTNESS, 255)
turn_on_brightness(c) ==
    /\ callers[c].pc = "on_brightness"
    /\ SetEntity(callers[c].self, "_brightness",
                 dict_get(callers[c].kwargs, ATTR_BRIGHTNESS, DefaultBrightness))
    /\ SetCaller(c, [callers[c] EXCEPT !.pc = "on_is_none"])
    /\ UNCHANGED <<config, hub, setup, errors, threads, started, level_io>>

\* line 183, first operand: self.is_on is None
turn_on_is_none(c) ==
    /\ callers[c].pc = "on_is_none"
    /\ SetCaller(c, [callers[c] EXCEPT !.pc =
                        IF is_on(callers[c].self) = "None"
                        THEN "on_new_on" ELSE "on_not_on"])
    /\ UNCHANGED <<config, hub, setup, errors, entities, threads,
                   started, level_io>>

\* line 183 with the two branches exchanged
turn_on_not_on_swapped(c) ==
    /\ callers[c].pc = "on_not_on"
    /\ SetCaller(c, [callers[c] EXCEPT !.pc =
                        IF is_on(callers[c].self) # "True"
                        THEN "on_new_dim" ELSE "on_new_on"])
    /\ UNCHANGED <<config, hub, setup, errors, entities, threads,
                   started, level_io>>

\* line 183, second operand: not self.is_on
turn_on_not_on(c) ==
    /\ callers[c].pc = "on_not_on"
    /\ SetCaller(c, [callers[c] EXCEPT !.pc =
                        IF is_on(callers[c].self) # "True"
                        THEN "on_new_on" ELSE "on_new_dim"])
    /\ UNCHANGED <<config, hub, setup, errors, entities, threads,
                   started, level_io>>

\* lines 184-194: KlikAanKlikUitThread(action=TURN_ON, ...).start()
turn_on_thread(c) ==
    /\ callers[c].pc = "on_new_on"
    /\ LET self == entities[callers[c].self]
       IN  Start(KlikAanKlikUitThread(TURN_ON, self._id, self.tries, self.sleep,
                                      "turn_on", {<<"entity", self._id>>}),
                 callers[c].self, TURN_ON)
    /\ SetCaller(c, [callers[c] EXCEPT !.pc = "on_state"])
    /\ UNCHANGED <<config, hub, setup, errors, entities, level_io>>

\* lines 197-207: KlikAanKlikUitThread(action=DIM, ..., level=ceil(brightness/17))
turn_on_new_dim(c) ==
    /\ callers[c].pc = "on_new_dim"
    /\ LET self == entities[callers[c].self]
       IN  SetCaller(c, [callers[c] EXCEPT
               !.pc = "on_start_dim",
               !.thread = KlikAanKlikUitThread(DIM, self._id, self.tries,
                              self.sleep, "dim",
                              {<<"entity", self._id>>,
                               <<"level", Level(brightness(callers[c].self))>>})])
    /\ UNCHANGED <<config, hub, setup, errors, entities, threads,
                   started, level_io>>

\* line 208: .start()
turn_on_start_dim(c) ==
    /\ callers[c].pc = "on_start_dim"
    /\ Start(callers[c].thread, callers[c].self, DIM)
    /\ SetCaller(c, [callers[c] EXCEPT !.pc = "on_state", !.thread = NoThread])
    /\ UNCHANGED <<config, hub, setup, errors, entities, level_io>>

\* line 209: self._state = True, and the call returns
turn_on_state(c) ==
    /\ callers[c].pc = "on_state"
    /\ SetEntity(callers[c].self, "_state", "True")
    /\ SetCaller(c, IdleCaller)
    /\ UNCHANGED <<config, hub, setup, errors, threads, started, level_io>>

(* ------------------------------ turn_off ------------------------------- *)
\* lines 211-217: the call begins; has_running_threads(self._id)
turn_off_check(c, self, serial) ==
    /\ callers[c].pc = "idle"
    /\ self \in DOMAIN entities
    /\ Serialized(serial, self)
    /\ IF has_running_threads(entities[self]._id)
       THEN SetCaller(c, [IdleCaller EXCEPT !.pc = "off_return", !.self = self])
       ELSE /\ CanStart
            /\ SetCaller(c, [IdleCaller EXCEPT !.pc = "off_new", !.self = self])
    /\ UNCHANGED <<config, hub, setup, errors, entities, threads,
                   started, level_io>>

\* line 218: return
turn_off_return(c) ==
    /\ callers[c].pc = "off_return"
    /\ SetCaller(c, IdleCaller)
    /\ UNCHANGED <<config, hub, setup, errors, entities, threads,
                   started, level_io>>

\* lines 220-230: KlikAanKlikUitThread(action=TURN_OFF, ...).start()
turn_off_thread(c) ==
    /\ callers[c].pc = "off_new"
    /\ LET self == entities[callers[c].self]
       IN  Start(KlikAanKlikUitThread(TURN_OFF, self._id, self.tries, self.sleep,
                                      "turn_off", {<<"entity", self._id>>}),
                 callers[c].self, TURN_OFF)
    /\ SetCaller(c, [callers[c] EXCEPT !.pc = "off_state"])
    /\ UNCHANGED <<config, hub, setup, errors, entities, level_io>>

\* line 231 writing True, as line 209 does
turn_off_state_true(c) ==
    /\ callers[c].pc = "off_state"
    /\ SetEntity(callers[c].self, "_state", "True")
    /\ SetCaller(c, IdleCaller)
    /\ UNCHANGED <<config, hub, setup, errors, threads, started, level_io>>

\* line 231 followed by self._brightness = None
turn_off_state_reset(c) ==
    /\ callers[c].pc = "off_state"
    /\ entities' = [entities EXCEPT ![callers[c].self] =
                        [@ EXCEPT !._state = "False", !._brightness = None]]
    /\ SetCaller(c, IdleCaller)
    /\ UNCHANGED <<config, hub, setup, errors, threads, started, level_io>>

\* line 231: self._state = False, and the call returns
turn_off_state(c) ==
    /\ callers[c].pc = "off_state"
    /\ SetEntity(callers[c].self, "_state", "False")
    /\ SetCaller(c, IdleCaller)
    /\ UNCHANGED <<config, hub, setup, errors, threads, started, level_io>>

(* ------------------------------- repeat -------------------------------- *)
CallEvent(t)  == [fn |-> threads[t].callable_function, kwargs |-> threads[t].kwargs]
SleepEvent(s) == [fn |-> "sleep", kwargs |-> {<<"secs", s>>}]

\* line 41 inside a try/except that goes on to the next try
repeat_call_swallow(t, raises) ==
    /\ t \in DOMAIN threads
    /\ threads[t].pc = "call"
    /\ SetThread(t, [threads[t] EXCEPT
                        !.trace = Append(@, CallEvent(t)),
                        !.exc = raises,
                        !.pc = "sleep"])
    /\ UNCHANGED <<config, hub, setup, errors, entities, callers,
                   started, level_io>>

\* line 41: callable_function(**kwargs); the hub call returns, or raises and
\* the exception leaves the loop.
repeat_call(t, raises) ==
    /\ t \in DOMAIN threads
    /\ threads[t].pc = "call"
    /\ SetThread(t, [threads[t] EXCEPT
                        !.trace = Append(@, CallEvent(t)),
                        !.exc = raises,
                        !.pc = IF raises THEN "exit" ELSE "sleep"])
    /\ UNCHANGED <<config, hub, setup, errors, entities, callers,
                   started, level_io>>

\* line 42 as time.sleep(sleep), after the last try too
repeat_sleep_always(t) ==
    /\ t \in DOMAIN threads
    /\ threads[t].pc = "sleep"
    /\ LET w == threads[t]
       IN  SetThread(t, [w EXCEPT
                            !.trace = Append(@, SleepEvent(w.sleep)),
                            !.i = w.i + 1,
                            !.pc = IF w.i + 1 < w.tries THEN "call" ELSE "exit"])
    /\ UNCHANGED <<config, hub, setup, errors, entities, callers,
                   started, level_io>>

\* line 42: time.sleep(sleep if i != tries - 1 else 0), then the next i of
\* range(0, tries)
repeat_sleep(t) ==
    /\ t \in DOMAIN threads
    /\ threads[t].pc = "sleep"
    /\ LET w == threads[t]
           secs == IF w.i # w.tries - 1 THEN w.sleep ELSE 0
       IN  SetThread(t, [w EXCEPT
                            !.trace = Append(@, SleepEvent(secs)),
                            !.i = w.i + 1,
                            !.pc = IF w.i + 1 < w.tries THEN "call" ELSE "exit"])
    /\ UNCHANGED <<config, hub, setup, errors, entities, callers,
                   started, level_io>>

\* a thread that has left repeat but stays in threading.enumerate()
thread_exit_stays(t) ==
    /\ t \in DOMAIN threads
    /\ threads[t].pc = "exit"
    /\ UNCHANGED vars

\* a thread that, ending on an exception, sets its device's cached state back
\* to unknown
thread_exit_unknown(t) ==
    /\ t \in DOMAIN threads
    /\ threads[t].pc = "exit"
    /\ threads' = SubSeq(threads, 1, t - 1) \o SubSeq(threads, t + 1, Len(threads))
    /\ entities' = [n \in DOMAIN entities |->
                        IF /\ threads[t].exc
                           /\ entities[n]._id =
                                  dict_get(threads[t].kwargs, "entity", None)
                        THEN [entities[n] EXCEPT !._state = "None"]
                        ELSE entities[n]]
    /\ UNCHANGED <<config, hub, setup, errors, callers, started, level_io>>

\* repeat has returned or raised: the thread ends and leaves the registry.
thread_exit(t) ==
    /\ t \in DOMAIN threads
    /\ threads[t].pc = "exit"
    /\ threads' = SubSeq(threads, 1, t - 1) \o SubSeq(threads, t + 1, Len(threads))
    /\ UNCHANGED <<config, hub, setup, errors, entities, callers,
                   started, level_io>>

(* ---------------------------- specifications --------------------------- *)
Threads == 1..MaxThreads

Step(serial) ==
    \/ setup_platform
    \/ \E c \in Callers, self \in Entities, kwargs \in Kwargs :
            turn_on_check(c, self, kwargs, serial)
    \/ \E c \in Callers : turn_on_return(c)
    \/ \E c \in Callers : turn_on_brightness(c)
    \/ \E c \in Callers : turn_on_is_none(c)
    \/ \E c \in Callers : turn_on_not_on(c)
    \/ \E c \in Callers : turn_on_thread(c)
    \/ \E c \in Callers : turn_on_new_dim(c)
    \/ \E c \in Callers : turn_on_start_dim(c)
    \/ \E c \in Callers : turn_on_state(c)
    \/ \E c \in Callers, self \in Entities : turn_off_check(c, self, serial)
    \/ \E c \in Callers : turn_off_return(c)
    \/ \E c \in Callers : turn_off_thread(c)
    \/ \E c \in Callers : turn_off_state(c)
    \/ \E t \in Threads, raises \in BOOLEAN : repeat_call(t, raises)
    \/ \E t \in Threads : repeat_sleep(t)
    \/ \E t \in Threads : thread_exit(t)

\* Calls from concurrent platform threads overlap.
Next == Step(FALSE)
Spec == Init /\ [][Next]_vars

\* Calls for one device are made one after the other.
NextSerial == Step(TRUE)
SpecSerial == Init /\ [][NextSerial]_vars

(* ----------------------------- scheduling ------------------------------ *)
\* Every worker thread is scheduled: a hub call it has made returns or
\* raises, a sleep it has begun ends, and a thread whose repeat is over ends.
\* Callers are under no obligation to call.
WorkerFairness ==
    \A t \in Threads :
        /\ WF_vars(\E raises \in BOOLEAN : repeat_call(t, raises))
        /\ WF_vars(repeat_sleep(t))
        /\ WF_vars(thread_exit(t))

\* A dimmer set up with both optional keys configured.
InitFair == Init /\ config # {} /\ hub.devices = <<Dimmer>>

\* Overlapping calls, as under Spec, with the workers scheduled.
NextFair == Step(FALSE)
SpecFair == InitFair /\ [][NextFair]_vars /\ WorkerFairness

(* ------------------------ two devices on one hub ------------------------ *)
\* A connected hub that holds the dimmer and the switch, set up with both
\* optional keys configured.
InitPair ==
    /\ config \in Configs \ {{}}
    /\ hub = [connected |-> TRUE, devices |-> <<Dimmer, Device>>]
    /\ setup = "start"
    /\ errors = 0
    /\ entities = <<>>
    /\ callers = [c \in Callers |-> IdleCaller]
    /\ threads = <<>>
    /\ started = <<>>
    /\ level_io = <<>>

\* The calls for one device are made one after the other; calls for the two
\* devices overlap.
NextPair == Step(TRUE)
SpecPair == InitPair /\ [][NextPair]_vars

(* ------------------------- setup_platform alone ------------------------ *)
\* Configurations with either optional key left out or set.
SetupConfigs ==
    {t \cup sl : t \in {{}} \cup {{<<"tries", n>>} : n \in 0..DefaultTries},
                 sl \in {{}} \cup {{<<"sleep", n>>} : n \in 0..DefaultSleep}}

\* Before setup_platform is called: any configuration, a hub that will or
\* will not connect, holding none, one or both devices.
InitSetup ==
    /\ config \in SetupConfigs
    /\ hub \in [connected : BOOLEAN, devices : SetupLists]
    /\ setup = "start"
    /\ errors = 0
    /\ entities = <<>>
    /\ callers = [c \in Callers |-> IdleCaller]
    /\ threads = <<>>
    /\ started = <<>>
    /\ level_io = <<>>

NextSetup == setup_platform
SpecSetup == InitSetup /\ [][NextSetup]_vars

(* ------------------- the brightness-to-level conversion ---------------- *)
\* Two brightness values of the platform's range, not yet converted.
InitLevel ==
    /\ config = {}
    /\ hub = [connected |-> TRUE, devices |-> <<Dimmer>>]
    /\ setup = "start"
    /\ errors = 0
    /\ entities = <<>>
    /\ callers = [c \in Callers |-> IdleCaller]
    /\ threads = <<>>
    /\ started = <<>>
    /\ level_io \in {[b |-> b, level |-> <<>>] : b \in Brightness \X Brightness}

\* line 206 applied to both values
ApplyLevel ==
    /\ level_io.level = <<>>
    /\ level_io' = [level_io EXCEPT
                        !.level = <<Level(level_io.b[1]), Level(level_io.b[2])>>]
    /\ UNCHANGED <<config, hub, setup, errors, entities, callers, threads, started>>

NextLevel == ApplyLevel
SpecLevel == InitLevel /\ [][NextLevel]_vars

(* ======================= properties of the program ===================== *)
\* The device a worker sends to, taken from the arguments of its hub calls.
EntityOf(w) == dict_get(w.kwargs, "entity", None)

\* The live workers of the device with this id, whatever their action.
WorkersOf(id) == {t \in DOMAIN threads : EntityOf(threads[t]) = id}

\* The hub calls a worker has made so far.
CallsOf(w) == {k \in DOMAIN w.trace : w.trace[k].fn # "sleep"}

\* The hub calls of one operation made so far by the live workers for a device.
HubCalls(fn, id) ==
    UNION {{<<t, k>> : k \in {j \in DOMAIN threads[t].trace :
                /\ threads[t].trace[j].fn = fn
                /\ dict_get(threads[t].trace[j].kwargs, "entity", None) = id}} :
           t \in DOMAIN threads}

ReturnPcs == {"on_return", "off_return"}

\* C1: a turn_on or turn_off call whose in-flight check finds a live worker
\* for its device (of any action) goes to its return statement and returns:
\* no step of the call starts a worker, makes a hub call or changes the
\* cached state or brightness.
C1_DroppedWhileInFlight ==
    [][\A c \in Callers :
          /\ (/\ callers[c].pc = "idle"
              /\ callers'[c].pc # "idle"
              /\ WorkersOf(entities[callers'[c].self]._id) # {})
             => /\ callers'[c].pc \in ReturnPcs
                /\ UNCHANGED <<threads, entities, started>>
          /\ (callers[c].pc \in ReturnPcs /\ callers'[c] # callers[c])
             => /\ callers'[c].pc = "idle"
                /\ UNCHANGED <<threads, entities, started>>]_vars

\* C1 witness: a turn_off is being dropped while the worker of the preceding
\* turn_on sleeps between two tries; the cached state is still on and the hub
\* has seen no turn_off for the device.
C1_Witness ==
    \E c \in Callers, t \in DOMAIN threads :
        LET self == callers[c].self IN
        /\ callers[c].pc = "off_return"
        /\ threads[t].name = thread_name(TURN_ON, entities[self]._id)
        /\ threads[t].pc = "sleep"
        /\ threads[t].i < threads[t].tries - 1
        /\ entities[self]._state = "True"
        /\ HubCalls("turn_off", entities[self]._id) = {}

\* C2: for every device at most one worker is alive, whatever its action.
C2_AtMostOneWorker ==
    \A n \in DOMAIN entities : Cardinality(WorkersOf(entities[n]._id)) <= 1

(* ------------ one call at a time for a device (SpecSerial) ------------- *)
\* The entity built for the device with this id.
EntityFor(id) == CHOOSE n \in DOMAIN entities : entities[n]._id = id

\* No call for entity n is under way.
NoCallFor(n) == \A c \in Callers : MidCall(c) => callers[c].self # n

\* A worker whose repeat loop has run to its end without an exception.
WorkerDone(w) == w.pc = "exit" /\ ~w.exc

\* The least integer that is at least b / 17.
Ceil17(b) == CHOOSE n \in 0..b : 17 * n >= b /\ (n = 0 \/ 17 * (n - 1) < b)

\* The brightness a turn_on call asks for: its argument, or full brightness.
Requested(c) == dict_get(callers[c].kwargs, ATTR_BRIGHTNESS, 255)

\* Every hub call worker w has made is fn(**kwargs) and nothing else, and
\* once its loop has ended normally there are exactly `tries` of them.
SendsOnly(w, fn, kwargs, tries) ==
    /\ \A k \in CallsOf(w) : w.trace[k] = [fn |-> fn, kwargs |-> kwargs]
    /\ WorkerDone(w) => Cardinality(CallsOf(w)) = tries

AfterBranch == {"on_new_on", "on_new_dim", "on_start_dim"}

\* C3: a turn_on call (with or without a brightness) that finds the cached
\* state unknown or off takes the turn_on branch; the worker it starts calls
\* only the hub's turn_on for the device, never dim, exactly `tries` times when
\* no call raises; after the call the cached state is on.
C3_TurnOnWhenOff ==
    /\ \A c \in Callers :
          LET self == callers[c].self IN
          /\ (callers[c].pc \in AfterBranch /\ is_on(self) \in {"None", "False"})
             => callers[c].pc = "on_new_on"
          /\ (callers[c].pc = "on_state" /\ is_on(self) \in {"None", "False"})
             => /\ started[self] = TURN_ON
                /\ \A t \in WorkersOf(entities[self]._id) :
                      threads[t].callable_function = "turn_on"
    /\ \A t \in DOMAIN threads :
          threads[t].callable_function = "turn_on"
          => LET n == EntityFor(EntityOf(threads[t])) IN
             /\ SendsOnly(threads[t], "turn_on",
                          {<<"entity", entities[n]._id>>}, entities[n].tries)
             /\ started[n] = TURN_ON
    /\ \A n \in DOMAIN entities :
          (started[n] = TURN_ON /\ NoCallFor(n)) => entities[n]._state = "True"

\* C3 witness: the device was unknown, turn_on() was called with tries = 3, and
\* its worker has finished after three turn_on calls; the device is cached on
\* at full brightness.
C3_Witness ==
    \E t \in DOMAIN threads :
        LET n == EntityFor(EntityOf(threads[t])) IN
        /\ threads[t].callable_function = "turn_on"
        /\ WorkerDone(threads[t])
        /\ Cardinality(HubCalls("turn_on", entities[n]._id)) = 3
        /\ HubCalls("dim", entities[n]._id) = {}
        /\ NoCallFor(n)
        /\ entities[n]._state = "True"
        /\ entities[n]._brightness = 255

\* C4: a turn_on call with brightness B that finds the device cached on takes
\* the dim branch; the worker it builds and starts calls only the hub's dim for
\* the device with level = ceil(B / 17), never turn_on, exactly `tries` times
\* when no call raises; after the call the cached state is on.
C4_DimWhenOn ==
    /\ \A c \in Callers :
          LET self == callers[c].self
              dim  == {<<"entity", entities[self]._id>>,
                       <<"level", Ceil17(Requested(c))>>}
          IN
          /\ (callers[c].pc \in AfterBranch /\ is_on(self) = "True")
             => callers[c].pc # "on_new_on"
          /\ callers[c].pc = "on_start_dim"
             => /\ callers[c].thread.callable_function = "dim"
                /\ callers[c].thread.kwargs = dim
                /\ callers[c].thread.tries = entities[self].tries
          /\ (callers[c].pc = "on_state" /\ is_on(self) = "True")
             => /\ started[self] = DIM
                /\ \A t \in WorkersOf(entities[self]._id) :
                      /\ threads[t].callable_function = "dim"
                      /\ threads[t].kwargs = dim
    /\ \A t \in DOMAIN threads :
          threads[t].callable_function = "dim"
          => LET n == EntityFor(EntityOf(threads[t])) IN
             /\ SendsOnly(threads[t], "dim", threads[t].kwargs, entities[n].tries)
             /\ started[n] = DIM
    /\ \A n \in DOMAIN entities :
          (started[n] = DIM /\ NoCallFor(n)) => entities[n]._state = "True"

\* C4 witness: the device was on, turn_on(brightness=18) was called with
\* tries = 3, and its worker has finished after three dim calls of level 2.
C4_Witness ==
    \E t \in DOMAIN threads :
        LET w == threads[t]
            n == EntityFor(EntityOf(w)) IN
        /\ w.callable_function = "dim"
        /\ WorkerDone(w)
        /\ Cardinality(CallsOf(w)) = 3
        /\ \A k \in CallsOf(w) : dict_get(w.trace[k].kwargs, "level", None) = 2
        /\ HubCalls("turn_on", entities[n]._id) = {}
        /\ entities[n]._brightness = 18
        /\ NoCallFor(n)
        /\ entities[n]._state = "True"

\* C5: a turn_off call that is not dropped starts a worker that calls only the
\* hub's turn_off for the device, exactly `tries` times when no call raises,
\* and after the call the cached state is off, whatever it was before.
C5_TurnOff ==
    /\ \A c \in Callers :
          LET self == callers[c].self IN
          callers[c].pc = "off_state"
          => /\ started[self] = TURN_OFF
             /\ \A t \in WorkersOf(entities[self]._id) :
                   threads[t].callable_function = "turn_off"
    /\ \A t \in DOMAIN threads :
          threads[t].callable_function = "turn_off"
          => LET n == EntityFor(EntityOf(threads[t])) IN
             /\ SendsOnly(threads[t], "turn_off",
                          {<<"entity", entities[n]._id>>}, entities[n].tries)
             /\ started[n] = TURN_OFF
    /\ \A n \in DOMAIN entities :
          (started[n] = TURN_OFF /\ NoCallFor(n)) => entities[n]._state = "False"

\* C5 witness: turn_off was called on a device that had been turned on before,
\* and its worker has finished after three turn_off calls; the device is
\* cached off.
C5_Witness ==
    \E t \in DOMAIN threads :
        LET w == threads[t]
            n == EntityFor(EntityOf(w)) IN
        /\ w.callable_function = "turn_off"
        /\ WorkerDone(w)
        /\ Cardinality(HubCalls("turn_off", entities[n]._id)) = 3
        /\ entities[n]._brightness # None
        /\ NoCallFor(n)
        /\ entities[n]._state = "False"

(* ------------------------- the repeat loop ----------------------------- *)
\* C6: the events of a worker are call, sleep, call, sleep, ... in this order;
\* the pause after every call but the last of the `tries` calls lasts `sleep`
\* seconds, the one after the last call lasts 0 seconds, and a loop that ends
\* normally has made exactly `tries` calls.
C6_CallSleepOrder ==
    \A t \in DOMAIN threads :
        LET w     == threads[t]
            n     == EntityFor(EntityOf(w))
            tries == entities[n].tries
            sleep == entities[n].sleep
        IN
        /\ Len(w.trace) <= 2 * tries
        /\ \A k \in DOMAIN w.trace :
              IF k % 2 = 1
              THEN w.trace[k] = [fn |-> w.callable_function, kwargs |-> w.kwargs]
              ELSE w.trace[k] = [fn |-> "sleep", kwargs |->
                        {<<"secs", IF k \div 2 < tries THEN sleep ELSE 0>>}]
        /\ w.pc = "call"  => Len(w.trace) % 2 = 0
        /\ w.pc = "sleep" => Len(w.trace) % 2 = 1
        /\ WorkerDone(w)  => Len(w.trace) = 2 * tries

\* C6 witness: a worker with tries = 3 and sleep = 3 has ended normally after
\* call, sleep(3), call, sleep(3), call, sleep(0).
C6_Witness ==
    \E t \in DOMAIN threads :
        LET w == threads[t] IN
        /\ WorkerDone(w)
        /\ Len(w.trace) = 6
        /\ \A k \in {1, 3, 5} : w.trace[k].fn = w.callable_function
        /\ \A k \in {2, 4} : w.trace[k].kwargs = {<<"secs", 3>>}
        /\ w.trace[6].kwargs = {<<"secs", 0>>}

\* C7: a worker whose hub call raised on its k-th try has made exactly k calls,
\* k in 1..tries, and is at its end: it makes no further call; the device's
\* cached state and brightness are still what the issuing call set.
C7_RaiseAbortsWorker ==
    \A t \in DOMAIN threads :
        LET w == threads[t]
            n == EntityFor(EntityOf(w))
        IN
        w.exc =>
            /\ w.pc = "exit"
            /\ Cardinality(CallsOf(w)) = w.i + 1
            /\ w.i + 1 \in 1..entities[n].tries
            /\ Len(w.trace) = 2 * w.i + 1
            /\ NoCallFor(n) =>
                  /\ entities[n]._state =
                        IF w.callable_function = "turn_off" THEN "False" ELSE "True"
                  /\ w.callable_function = "dim" =>
                        w.kwargs = {<<"entity", entities[n]._id>>,
                                    <<"level", Ceil17(entities[n]._brightness)>>}
                  /\ w.callable_function = "turn_on" =>
                        entities[n]._brightness \in
                            BrightnessInputs \cup {DefaultBrightness}

\* C7 witness: the hub's turn_on raised on the second of three tries; the
\* worker is at its end with two calls made and the device is cached on.
C7_Witness ==
    \E t \in DOMAIN threads :
        LET w == threads[t]
            n == EntityFor(EntityOf(w))
        IN
        /\ w.exc
        /\ w.callable_function = "turn_on"
        /\ w.tries = 3
        /\ Cardinality(CallsOf(w)) = 2
        /\ NoCallFor(n)
        /\ entities[n]._state = "True"

(* ------------------------------ color mode ----------------------------- *)
\* C8: the color mode is brightness exactly when the device supports
\* brightness (it is a Dimmer) and the cached brightness is set and non-zero.
C8_ColorMode ==
    \A n \in DOMAIN entities :
        color_mode(n) = BRIGHTNESS
        <=> /\ BRIGHTNESS \in entities[n]._attr_supported_color_modes
            /\ entities[n]._brightness \notin {None, 0}

(* --------------------------- brightness levels ------------------------- *)
\* C9: the level computed for a brightness never decreases as the brightness
\* grows over 0..255; brightness 255 gives level 15 and brightness 1 level 1.
C9_LevelMonotonic ==
    level_io.level # <<>> =>
        /\ level_io.b[1] < level_io.b[2] => level_io.level[1] <= level_io.level[2]
        /\ level_io.b[1] = 255 => level_io.level[1] = 15
        /\ level_io.b[1] = 1 => level_io.level[1] = 1

\* C9 witness: brightness 1 and 255 have been converted, to 1 and 15.
C9_Witness == level_io.b = <<1, 255>> /\ level_io.level = <<1, 15>>

\* C10: every dim call sent to the hub carries a level in 1..15.
C10_DimLevelInRange ==
    \A t \in DOMAIN threads : \A k \in CallsOf(threads[t]) :
        threads[t].trace[k].fn = "dim"
        => dict_get(threads[t].trace[k].kwargs, "level", None) \in 1..15

(* ----------------------- what a call leaves alone ---------------------- *)
OffPcs == {"off_return", "off_new", "off_state"}

\* Caller c takes a step of a turn_off call: it enters one, or moves on in one.
TurnOffStep(c) ==
    /\ callers'[c] # callers[c]
    /\ callers[c].pc \in OffPcs \/ callers'[c].pc \in OffPcs

\* C11: no step of a turn_off call, dropped or accepted, changes the cached
\* brightness of any entity.
C11_TurnOffKeepsBrightness ==
    [][\A c \in Callers :
          TurnOffStep(c) =>
              \A n \in DOMAIN entities :
                  entities'[n]._brightness = entities[n]._brightness]_vars

\* C11 witness: an accepted turn_off has written the cached state while the
\* brightness of an earlier turn_on(brightness=18) is still cached, and the
\* other caller's turn_off for the same device is being dropped.
C11_Witness ==
    \E c \in Callers, n \in DOMAIN entities :
        /\ callers[c].pc = "off_return"
        /\ callers[c].self = n
        /\ started[n] = TURN_OFF
        /\ entities[n]._state = "False"
        /\ entities[n]._brightness = 18

(* ------------------------------- setup --------------------------------- *)
\* The entities are those setup_platform builds from hub.devices: one for
\* each position of the list, for the device at that position.
OnePerDevice ==
    /\ DOMAIN entities = DOMAIN hub.devices
    /\ \A n \in DOMAIN entities :
           entities[n] = KlikAanKlikUitDevice(
                             hub.devices[n],
                             dict_get(config, "tries", DefaultTries),
                             dict_get(config, "sleep", DefaultSleep))

\* C12: once setup_platform has run, a hub that is not connected has left no
\* entity registered and exactly one error logged, and a connected hub has
\* left exactly one entity for each device of hub.devices and no error; before
\* it runs nothing is logged or registered, and once it has run no step
\* changes the hub, the error count or the set of registered entities (the
\* connection is not tried again).
C12_SetupOutcome ==
    /\ [](/\ setup = "start" => errors = 0 /\ entities = <<>>
          /\ setup = "done" => IF ~hub.connected
                                THEN entities = <<>> /\ errors = 1
                                ELSE OnePerDevice /\ errors = 0)
    /\ [][setup = "done" =>
              /\ UNCHANGED <<setup, hub, errors>>
              /\ DOMAIN entities' = DOMAIN entities]_vars

\* C12 witness: setup_platform has run against a hub that is not connected
\* although it holds both devices: one error, no entity.
C12_Witness ==
    /\ setup = "done"
    /\ ~hub.connected
    /\ Len(hub.devices) = 2
    /\ errors = 1
    /\ entities = <<>>

(* ------------------------------ progress ------------------------------- *)
DeviceIds == {Dimmer.id, Device.id}

\* C13: when every worker thread is scheduled and every hub call returns or
\* raises, the live workers of a device all end, so that its in-flight marker
\* is gone, by the threads' own ending and with no other step; and a call whose
\* check finds no live worker for its device is never sent to the return
\* statement: it goes on to start a worker.
C13_WorkersEnd ==
    /\ \A id \in DeviceIds : (WorkersOf(id) # {}) ~> (WorkersOf(id) = {})
    /\ [][\A c \in Callers :
              (/\ callers[c].pc = "idle"
               /\ callers'[c].pc # "idle"
               /\ WorkersOf(entities[callers'[c].self]._id) = {})
              => callers'[c].pc \notin ReturnPcs]_vars
    /\ [][\A id \in DeviceIds :
              (WorkersOf(id) # {} /\ WorkersOf(id)' = {})
              => \E t \in DOMAIN threads : thread_exit(t)]_vars

\* C13 witness: a call has passed its check and is about to start a worker
\* for a device whose earlier worker has ended.
C13_Witness ==
    \E c \in Callers :
        /\ callers[c].pc \in {"on_brightness", "off_new"}
        /\ started[callers[c].self] # ""
        /\ threads = <<>>

(* ---------------------- one worker after another ----------------------- *)
\* The positions of a call that has passed its check and not yet started its
\* worker.
BeforeStartPcs == {"on_brightness", "on_is_none", "on_not_on", "on_new_on",
                   "on_new_dim", "on_start_dim", "off_new"}

\* C14: when the calls for a device are made one after the other, at most one
\* worker for the device is alive, and an accepted call starts its worker only
\* when no earlier worker for the device is alive: every hub call of the
\* earlier worker has been made before the first call of the next.
C14_SerialWorkersInTurn ==
    \A n \in DOMAIN entities :
        /\ Cardinality(WorkersOf(entities[n]._id)) <= 1
        /\ \A c \in Callers :
               (callers[c].self = n /\ callers[c].pc \in BeforeStartPcs)
               => WorkersOf(entities[n]._id) = {}

\* C14 witness: the worker of a turn_off that followed an accepted turn_on is
\* the one live worker of its device and has made a hub call.
C14_Witness ==
    \E n \in DOMAIN entities, t \in DOMAIN threads :
        /\ threads[t].name = thread_name(TURN_OFF, entities[n]._id)
        /\ CallsOf(threads[t]) # {}
        /\ entities[n]._brightness # None
        /\ WorkersOf(entities[n]._id) = {t}

(* --------------------------- device by device -------------------------- *)
\* C15: a call whose check finds no live worker for its own device is never
\* sent to the return statement, whatever workers are alive for the other
\* device; a call is dropped only on a live worker for the device it is for.
C15_PerDeviceDetection ==
    [][\A c \in Callers :
          (callers[c].pc = "idle" /\ callers'[c].pc # "idle")
          => (callers'[c].pc \in ReturnPcs
              <=> WorkersOf(entities[callers'[c].self]._id) # {})]_vars

\* C15 witness: a call for one device has been accepted and has started its
\* worker while a worker for the other device, already at its hub calls, is
\* alive: two workers for two devices are alive together.
C15_Witness ==
    \E c \in Callers, t, u \in DOMAIN threads :
        LET id == entities[callers[c].self]._id IN
        /\ callers[c].pc \in {"on_state", "off_state"}
        /\ WorkersOf(id) = {t}
        /\ threads[t].trace = <<>>
        /\ EntityOf(threads[u]) # id
        /\ CallsOf(threads[u]) # {}

(* -------------------------- cached brightness -------------------------- *)
\* The positions of a turn_on call after line 182.
BrightnessWrittenPcs == {"on_is_none", "on_not_on", "on_new_on", "on_new_dim",
                         "on_start_dim", "on_state"}

\* The "level" a worker sends, None when it sends none.
LevelOf(w) == dict_get(w.kwargs, "level", None)

\* C16: with the calls for a device made one after the other, an accepted
\* turn_on has, from line 182 on, the cached brightness at its brightness
\* argument, or at 255 when it has none, on either branch; when it has none
\* and takes the dim branch the worker it builds and starts sends level 15;
\* when it takes the turn_on branch the worker it starts sends no level, while
\* the argument is cached.
C16_TurnOnCachesBrightness ==
    \A c \in Callers :
        LET n  == callers[c].self
            pc == callers[c].pc
        IN  /\ pc \in BrightnessWrittenPcs
               => entities[n]._brightness = Requested(c)
            /\ (pc = "on_start_dim" /\ callers[c].kwargs = {})
               => LevelOf(callers[c].thread) = 15
            /\ (pc = "on_state" /\ started[n] = DIM /\ callers[c].kwargs = {})
               => \A t \in WorkersOf(entities[n]._id) :
                      /\ LevelOf(threads[t]) = 15
                      /\ \A k \in CallsOf(threads[t]) :
                             /\ threads[t].trace[k].fn = "dim"
                             /\ dict_get(threads[t].trace[k].kwargs,
                                         "level", None) = 15
            /\ (pc = "on_state" /\ started[n] = TURN_ON)
               => \A t \in WorkersOf(entities[n]._id) :
                      /\ LevelOf(threads[t]) = None
                      /\ \A k \in CallsOf(threads[t]) :
                             threads[t].trace[k].kwargs =
                                 {<<"entity", entities[n]._id>>}

\* C16 witness: turn_on(brightness=18) for a device cached as off has started
\* a turn_on worker, which has called the hub with no level; 18 is cached.
C16_Witness ==
    \E c \in Callers, t \in DOMAIN threads :
        LET n == callers[c].self IN
        /\ callers[c].pc = "on_state"
        /\ callers[c].kwargs = {<<ATTR_BRIGHTNESS, 18>>}
        /\ entities[n]._state = "False"
        /\ entities[n]._brightness = 18
        /\ WorkersOf(entities[n]._id) = {t}
        /\ threads[t].callable_function = "turn_on"
        /\ CallsOf(threads[t]) # {}

\* A turn_on without brightness for a device cached as on is about to start a
\* dim worker with level 15.
C16_WitnessFullLevel ==
    \E c \in Callers :
        /\ callers[c].pc = "on_start_dim"
        /\ callers[c].kwargs = {}
        /\ LevelOf(callers[c].thread) = 15

(* ----------------------- who writes the cache -------------------------- *)
\* The positions of a call whose next statement assigns _brightness or _state.
WritingPcs == {"on_brightness", "on_state", "off_state"}

\* C17: no step that changes the registry of threads or a thread in it (a
\* start, a hub call, a sleep, a thread's end, after an exception or not)
\* changes any entity; once the entities are built none changes its tries,
\* sleep, id or supported modes; and an entity's cached state or brightness
\* changes only in a step of an accepted call for that entity, at line 182,
\* 209 or 231.
C17_OnlyCallsWriteCache ==
    [][setup = "done" =>
          /\ threads' # threads => entities' = entities
          /\ DOMAIN entities' = DOMAIN entities
          /\ \A n \in DOMAIN entities :
                 /\ entities'[n].tries = entities[n].tries
                 /\ entities'[n].sleep = entities[n].sleep
                 /\ entities'[n]._id = entities[n]._id
                 /\ entities'[n]._attr_supported_color_modes =
                        entities[n]._attr_supported_color_modes
                 /\ entities'[n] # entities[n]
                    => \E c \in Callers :
                           /\ callers[c].self = n
                           /\ callers[c].pc \in WritingPcs
                           /\ callers'[c] # callers[c]]_vars

\* C17 witness: the switch's worker has ended on an exception of its hub call
\* and is about to leave the registry while a worker of the dimmer sleeps;
\* both entities have the state and brightness their turn_on calls cached.
C17_Witness ==
    \E t, u \in DOMAIN threads :
        /\ threads[t].pc = "exit" /\ threads[t].exc
        /\ threads[u].pc = "sleep"
        /\ EntityOf(threads[t]) = Device.id
        /\ EntityOf(threads[u]) = Dimmer.id
        /\ \A n \in DOMAIN entities :
               /\ NoCallFor(n)
               /\ entities[n]._state = "True"
               /\ entities[n]._brightness = 18

(* --------------------- cached state and last worker -------------------- *)
\* The cached state that goes with the action of the worker started last for
\* an entity: unknown when none was ever started.
StateFor(action) ==
    IF action = "" THEN "None"
    ELSE IF action = TURN_OFF THEN "False" ELSE "True"

\* C18: whenever no call for an entity is under way, its cached state is the
\* one that goes with the worker started last for it: on after a turn_on or
\* dim worker, off after a turn_off worker, unknown when and only when no
\* worker was ever started.
C18_StateFollowsLastWorker ==
    \A n \in DOMAIN entities :
        NoCallFor(n) => entities[n]._state = StateFor(started[n])

(* ------------------------- dim and device kind ------------------------- *)
\* C19: every call of the hub's dim that a worker has made is for a device
\* whose entity supports the brightness mode (a Dimmer); none is for an entity
\* that supports on/off only.
C19_DimOnlyForDimmers ==
    \A t \in DOMAIN threads :
        \A k \in CallsOf(threads[t]) :
            threads[t].trace[k].fn = "dim"
            => BRIGHTNESS \in
                   entities[EntityFor(dict_get(threads[t].trace[k].kwargs,
                                               "entity", None))]
                       ._attr_supported_color_modes

====
